---- MODULE Spec2Model ----
(***************************************************************************)
(* Model of the Cloudinary build integration: the onBuild handler          *)
(* (precondition checks, asset discovery and resolution, redirect          *)
(* emission) and the onPostBuild handler (HTML rewriting).                 *)
(*                                                                         *)
(* Paths are sequences of segments: '/images' is <<"images">>, and         *)
(* '/dist/images/a.png' is <<"dist", "images", "a.png">>.                  *)
(* A JavaScript run between two awaits is one action.                      *)
(***************************************************************************)
EXTENDS Integers, Sequences, FiniteSets, Bags, TLC

\* ---------------------------------------------------------------- bounds
MaxFiles == 2      \* discovered image files
MaxPaths == 2      \* entries of an imagesPath array
MaxPages == 2      \* HTML documents under the publish directory
MaxPreexisting == 2 \* redirect rules in the host's list before onBuild

\* ------------------------------------------------------------ JS values
Undef == "<undefined>"

\* !x for an optional string
Falsy(x) == x = Undef \/ x = ""

\* const { k = d } = obj : the default applies only to undefined
Default(x, d) == IF x = Undef THEN d ELSE x

\* a || b
Or(a, b) == IF Falsy(a) THEN b ELSE a

Range(s) == {s[i] : i \in 1..Len(s)}

\* sequences over S of length at most n
SeqUpTo(S, n) == UNION {[1..k -> S] : k \in 0..n}

\* the index of x in the sequence names
IndexIn(names, x) == CHOOSE k \in 1..Len(names) : names[k] = x

\* the selections of at most n of names[1..n], each once, in the order of names
Listings(names, n) ==
  {s \in SeqUpTo({names[k] : k \in 1..n}, n) :
     \A i, j \in 1..Len(s) : i < j => IndexIn(names, s[i]) < IndexIn(names, s[j])}

\* ------------------------------------------------------- program constants
ERROR_SITE_NAME_REQUIRED == "ERROR_SITE_NAME_REQUIRED"
ERROR_NETLIFY_HOST_UNKNOWN == "ERROR_NETLIFY_HOST_UNKNOWN"
ERROR_NETLIFY_HOST_CLI_SUPPORT == "ERROR_NETLIFY_HOST_CLI_SUPPORT"
ERROR_CLOUD_NAME_REQUIRED == "ERROR_CLOUD_NAME_REQUIRED"
ERROR_API_CREDENTIALS_REQUIRED == "ERROR_API_CREDENTIALS_REQUIRED"

\* the CDN asset-mount namespace, imported from ./data/cloudinary
PUBLIC_ASSET_PATH == "cloudinary-assets"

\* CLOUDINARY_ASSET_DIRECTORIES: one category, images, default path '/images'
CLOUDINARY_ASSET_DIRECTORIES ==
  << [name |-> "images", inputKey |-> "imagesPath", path |-> <<"images">>] >>

\* constants.PUBLISH_DIR
PUBLISH_DIR == <<"dist">>

\* ---------------------------------------------------------- input domains
FileNames == <<"a.png", "b.png", "c.png", "d.png">>
PageNames == <<"index.html", "about.html", "blog.html", "docs.html">>
\* directory names a site may use; imagesPath is any string, the name of the
\* CDN asset mount included
DirNames == <<"images", "cloudinary-assets", "media", "photos">>

\* an image file on disk under the publish directory
ImageFile(name) == PUBLISH_DIR \o <<"images", name>>

\* an HTML document on disk under the publish directory
HtmlFile(name) == PUBLISH_DIR \o <<name>>

HtmlFiles == {HtmlFile(PageNames[i]) : i \in 1..MaxPages}

\* media paths a site may configure
MediaPathNames == {<<DirNames[i]>> : i \in 1..MaxPaths}

\* imagesPath: z.string().or(z.array(z.string())).optional()
ImagesPathValues ==
  {[kind |-> "undefined", str |-> <<>>, arr |-> <<>>]}
  \cup {[kind |-> "string", str |-> p, arr |-> <<>>] : p \in MediaPathNames}
  \cup {[kind |-> "array", str |-> <<>>, arr |-> a] :
          a \in {[i \in 1..Len(l) |-> <<l[i]>>] :
                   l \in Listings(DirNames, MaxPaths)}}

\* deliveryType: z.string().optional()
DeliveryTypeValues == {Undef, "fetch", "upload", "auto"}

BuildConfigs ==
  [cloudName : {Undef, "cfg-cloud"},
   deliveryType : DeliveryTypeValues,
   folder : {Undef, "my-folder"},
   imagesPath : ImagesPathValues]

ProcessEnvs ==
  [CONTEXT : {"production", "deploy-preview"},
   NETLIFY_HOST : {Undef, "https://site.netlify.app"},
   DEPLOY_PRIME_URL : {Undef, "https://preview--site.netlify.app"},
   SITE_NAME : {Undef, "my-site"},
   CLOUDINARY_CLOUD_NAME : {Undef, "env-cloud"},
   CLOUDINARY_API_KEY : {Undef, "key"},
   CLOUDINARY_API_SECRET : {Undef, "secret"}]

\* a rule the host's redirect list holds before the integration runs
PreexistingRule(i) ==
  [from |-> [path |-> <<"old", DirNames[i]>>, glob |-> "/*"],
   to |-> [kind |-> "local", cloudName |-> Undef, deliveryType |-> Undef,
           folder |-> Undef, host |-> Undef, path |-> <<"new">>,
           splat |-> TRUE],
   status |-> 301,
   force |-> FALSE]

PreexistingRedirects == [i \in 1..MaxPreexisting |-> PreexistingRule(i)]

\* ------------------------------------------------------------------ state
VARIABLES
  locals,            \* host, deliveryType, folder, ... of the handlers
  redirects,         \* netlifyConfig.redirects
  cloudinaryAssets,  \* _cloudinaryAssets
  assetWrites,       \* number of assignments to _cloudinaryAssets.images
  cloudinaryConfig,  \* what configureCloudinary last set
  configureCalls,    \* number of configureCloudinary calls
  failCalls,         \* utils.build.failPlugin / failBuild calls, in order
  buildLog,          \* console output of both handlers, in order
  urlCalls,          \* bag of getCloudinaryUrl calls issued
  buildPc,           \* position of the onBuild handler
  imagesFiles,       \* onBuild: what findAssetsByPath returned
  resolution,        \* onBuild: per discovered file, its resolution task
  rejected,          \* onBuild: index of the task that rejected Promise.all, or 0
  mediaPaths,        \* onBuild: the media paths of the fetch emission
  emitted,           \* onBuild: per media path, has its callback resumed
  postPc,            \* position of the onPostBuild handler
  pages,             \* onPostBuild: what glob.sync returned
  rewrite,           \* onPostBuild: per page, its rewrite task
  pageWrites,        \* number of fs.writeFileSync calls per document
  rewriterCalls      \* updateHtmlImagesToCloudinary calls issued

vars ==
  <<locals, redirects, cloudinaryAssets, assetWrites,
    cloudinaryConfig, configureCalls, failCalls, buildLog, urlCalls, buildPc,
    imagesFiles, resolution, rejected, mediaPaths, emitted, postPc, pages,
    rewrite, pageWrites, rewriterCalls>>

buildVars ==
  <<buildPc, imagesFiles, resolution, rejected, mediaPaths, emitted>>

postVars == <<postPc, pages, rewrite, pageWrites, rewriterCalls>>

\* ------------------------------------------- values both handlers compute
\* isProduction ? process.env.NETLIFY_HOST : process.env.DEPLOY_PRIME_URL
HostOf(env) ==
  IF env.CONTEXT = "production" THEN env.NETLIFY_HOST ELSE env.DEPLOY_PRIME_URL

\* deliveryType = 'fetch'
DeliveryTypeOf(config) == Default(config.deliveryType, "fetch")

\* folder = process.env.SITE_NAME
FolderOf(config, env) == Default(config.folder, env.SITE_NAME)

\* process.env.CLOUDINARY_CLOUD_NAME || buildConfig.cloudName
CloudNameOf(config, env) == Or(env.CLOUDINARY_CLOUD_NAME, config.cloudName)

\* the constants both handlers set from process.env and buildConfig before
\* their checks; the two handlers of one build read the same values
Locals(config, env) ==
  [host |-> HostOf(env),
   deliveryType |-> DeliveryTypeOf(config),
   folder |-> FolderOf(config, env),
   cloudName |-> CloudNameOf(config, env),
   apiKey |-> env.CLOUDINARY_API_KEY,
   apiSecret |-> env.CLOUDINARY_API_SECRET,
   imagesPath |-> config.imagesPath]

Host == locals.host

DeliveryType == locals.deliveryType

Folder == locals.folder

CloudName == locals.cloudName

ApiKey == locals.apiKey

ApiSecret == locals.apiSecret

\* imagesPath = CLOUDINARY_ASSET_DIRECTORIES.find(...)?.path
ImagesPath ==
  IF locals.imagesPath.kind = "undefined"
    THEN [kind |-> "string",
          str |-> (CHOOSE d \in Range(CLOUDINARY_ASSET_DIRECTORIES) :
                     d.inputKey = "imagesPath").path,
          arr |-> <<>>]
    ELSE locals.imagesPath

\* one utils.build.failPlugin or utils.build.failBuild call of a handler
FailCall(handler, fn, message) ==
  [handler |-> handler, fn |-> fn, message |-> message]

\* one console line of a handler
LogLine(handler, text) == [handler |-> handler, text |-> text]

\* the console lines of a handler for the texts given
LogLines(handler, texts) ==
  [i \in 1..Len(texts) |-> LogLine(handler, texts[i])]

\* ------------------------------------------------------------ URL Resolver
\* a place an asset is fetched from: `${host}${path}` or `${host}${path}/:splat`
Location(host, path, splat) == [host |-> host, path |-> path, splat |-> splat]

\* determineRemoteUrl: a path that already carries its host is used as it is
DetermineRemoteUrl(location, remoteHost) ==
  IF location.host # Undef
    THEN location
    ELSE Location(remoteHost, location.path, location.splat)

\* a CDN delivery URL <cdn-base>/<deliveryType>/<folder>/<source>
CdnUrl(cloudName, deliveryType, folder, location) ==
  [kind |-> "cdn", cloudName |-> cloudName, deliveryType |-> deliveryType,
   folder |-> folder, host |-> location.host, path |-> location.path,
   splat |-> location.splat]

\* `${mediaPath}/:splat`, a path of the site itself
LocalSplat(path) ==
  [kind |-> "local", cloudName |-> Undef, deliveryType |-> Undef,
   folder |-> Undef, host |-> Undef, path |-> path, splat |-> TRUE]

\* the options object of one getCloudinaryUrl call, with the handler that
\* issued it
UrlOptions(handler, deliveryType, folder, location, remoteHost) ==
  [handler |-> handler, deliveryType |-> deliveryType, folder |-> folder,
   path |-> location, remoteHost |-> remoteHost]

\* getCloudinaryUrl's result: fetch embeds the remote location of the asset,
\* upload the identity the CDN gives the uploaded file (its folder and path)
GetCloudinaryUrl(options) ==
  LET source == IF options.deliveryType = "fetch"
                  THEN DetermineRemoteUrl(options.path, options.remoteHost)
                  ELSE Location(Undef, options.path.path, FALSE)
  IN [sourceUrl |-> source,
      cloudinaryUrl |-> CdnUrl(cloudinaryConfig.cloudName,
                               options.deliveryType, options.folder, source)]

\* may getCloudinaryUrl reject: fetch is pure URL construction, the other
\* delivery types reach the CDN over the network
MayReject(deliveryType) == deliveryType # "fetch"

\* the message of the error a rejected resolution carries
ErrorMessage(publishPath) == "UploadError " \o publishPath[Len(publishPath)]

\* ------------------------------------------------------------ Path Matcher
IsPrefix(p, q) == Len(p) <= Len(q) /\ SubSeq(q, 1, Len(p)) = p

\* a single pattern is a one-element list of patterns
Patterns(imagesPath) ==
  IF imagesPath.kind = "string" THEN <<imagesPath.str>> ELSE imagesPath.arr

\* findAssetsByPath: the files under baseDir that some pattern matches, each
\* once, in any order the file system lists them
FindAssetsByPath(baseDir, imagesPath) ==
  {files \in {[i \in 1..Len(l) |-> ImageFile(l[i])] :
                l \in Listings(FileNames, MaxFiles)} :
     \A i \in 1..Len(files) :
       \E k \in 1..Len(Patterns(imagesPath)) :
         IsPrefix(baseDir \o Patterns(imagesPath)[k], files[i])}

\* image.replace(PUBLISH_DIR, '')
PublishPath(image) ==
  IF IsPrefix(PUBLISH_DIR, image)
    THEN SubSeq(image, Len(PUBLISH_DIR) + 1, Len(image))
    ELSE image

\* --------------------------------------------------------- redirect rules
Rule(from, to, status, force) ==
  [from |-> from, to |-> to, status |-> status, force |-> force]

\* Unshift as a push: the rule goes to the end of the list
Unshift_Push(list, rule) == list \o <<rule>>

\* netlifyConfig.redirects.unshift(rule)
Unshift(list, rule) == <<rule>> \o list

\* upload: { from: `${publishPath}*`, to: cloudinaryUrl, status: 302, force: true }
UploadRule(asset) ==
  Rule([path |-> asset.publishPath, glob |-> "*"], asset.cloudinaryUrl,
       302, TRUE)

\* `/${path.join(PUBLIC_ASSET_PATH, mediaPath)}`
CldAssetPath(mediaPath) == <<PUBLIC_ASSET_PATH>> \o mediaPath

\* fetch: { from: `${cldAssetPath}/*`, to: `${mediaPath}/:splat`, status: 200, force: true }
PassThroughRule(mediaPath) ==
  Rule([path |-> CldAssetPath(mediaPath), glob |-> "/*"],
       LocalSplat(mediaPath), 200, TRUE)

\* fetch: { from: `${mediaPath}/*`, to: assetRedirectUrl, status: 302, force: true }
FetchRedirectRule(mediaPath, assetRedirectUrl) ==
  Rule([path |-> mediaPath, glob |-> "/*"], assetRedirectUrl, 302, TRUE)

\* the options of the getCloudinaryUrl call of one emission callback
EmitOptions(mediaPath) ==
  UrlOptions("onBuild", "fetch", Folder, Location(Host, CldAssetPath(mediaPath), TRUE),
             Undef)

\* ---------------------------------------------------------------- onBuild
\* OnBuildChecks with the account-name check moved before the host check
OnBuildChecks_CloudBeforeHost(folder, host, deliveryType, cloudName, apiKey, apiSecret) ==
  IF Falsy(folder)
    THEN [exit |-> "Failed",
          fails |-> <<FailCall("onBuild", "failPlugin", ERROR_SITE_NAME_REQUIRED)>>,
          log |-> <<>>]
  ELSE IF Falsy(cloudName)
    THEN [exit |-> "Failed",
          fails |-> <<FailCall("onBuild", "failBuild", ERROR_CLOUD_NAME_REQUIRED)>>,
          log |-> <<ERROR_CLOUD_NAME_REQUIRED>>]
  ELSE IF Falsy(host) /\ deliveryType = "fetch"
    THEN [exit |-> "Skipped",
          fails |-> <<>>,
          log |-> <<ERROR_NETLIFY_HOST_UNKNOWN,
                    ERROR_NETLIFY_HOST_CLI_SUPPORT>>]
  ELSE IF deliveryType = "upload" /\ (Falsy(apiKey) \/ Falsy(apiSecret))
    THEN [exit |-> "Failed",
          fails |-> <<FailCall("onBuild", "failBuild", ERROR_API_CREDENTIALS_REQUIRED)>>,
          log |-> <<ERROR_API_CREDENTIALS_REQUIRED>>]
  ELSE [exit |-> "Passed", fails |-> <<>>, log |-> <<>>]

\* OnBuildChecks with the host check treated as a configuration error
OnBuildChecks_HostFails(folder, host, deliveryType, cloudName, apiKey, apiSecret) ==
  IF Falsy(folder)
    THEN [exit |-> "Failed",
          fails |-> <<FailCall("onBuild", "failPlugin", ERROR_SITE_NAME_REQUIRED)>>,
          log |-> <<>>]
  ELSE IF Falsy(host) /\ deliveryType = "fetch"
    THEN [exit |-> "Failed",
          fails |-> <<FailCall("onBuild", "failBuild", ERROR_NETLIFY_HOST_UNKNOWN)>>,
          log |-> <<ERROR_NETLIFY_HOST_UNKNOWN>>]
  ELSE IF Falsy(cloudName)
    THEN [exit |-> "Failed",
          fails |-> <<FailCall("onBuild", "failBuild", ERROR_CLOUD_NAME_REQUIRED)>>,
          log |-> <<ERROR_CLOUD_NAME_REQUIRED>>]
  ELSE IF deliveryType = "upload" /\ (Falsy(apiKey) \/ Falsy(apiSecret))
    THEN [exit |-> "Failed",
          fails |-> <<FailCall("onBuild", "failBuild", ERROR_API_CREDENTIALS_REQUIRED)>>,
          log |-> <<ERROR_API_CREDENTIALS_REQUIRED>>]
  ELSE [exit |-> "Passed", fails |-> <<>>, log |-> <<>>]

\* OnBuildChecks where the host is required whatever the delivery type
OnBuildChecks_HostAlways(folder, host, deliveryType, cloudName, apiKey, apiSecret) ==
  IF Falsy(folder)
    THEN [exit |-> "Failed",
          fails |-> <<FailCall("onBuild", "failPlugin", ERROR_SITE_NAME_REQUIRED)>>,
          log |-> <<>>]
  ELSE IF Falsy(host)
    THEN [exit |-> "Skipped",
          fails |-> <<>>,
          log |-> <<ERROR_NETLIFY_HOST_UNKNOWN,
                    ERROR_NETLIFY_HOST_CLI_SUPPORT>>]
  ELSE IF Falsy(cloudName)
    THEN [exit |-> "Failed",
          fails |-> <<FailCall("onBuild", "failBuild", ERROR_CLOUD_NAME_REQUIRED)>>,
          log |-> <<ERROR_CLOUD_NAME_REQUIRED>>]
  ELSE IF deliveryType = "upload" /\ (Falsy(apiKey) \/ Falsy(apiSecret))
    THEN [exit |-> "Failed",
          fails |-> <<FailCall("onBuild", "failBuild", ERROR_API_CREDENTIALS_REQUIRED)>>,
          log |-> <<ERROR_API_CREDENTIALS_REQUIRED>>]
  ELSE [exit |-> "Passed", fails |-> <<>>, log |-> <<>>]

\* the precondition checks of onBuild, in the order of the code: the exit of
\* the first check that fails, with what it signals and logs
OnBuildChecks(folder, host, deliveryType, cloudName, apiKey, apiSecret) ==
  IF Falsy(folder)
    THEN [exit |-> "Failed",
          fails |-> <<FailCall("onBuild", "failPlugin", ERROR_SITE_NAME_REQUIRED)>>,
          log |-> <<>>]
  ELSE IF Falsy(host) /\ deliveryType = "fetch"
    THEN [exit |-> "Skipped",
          fails |-> <<>>,
          log |-> <<ERROR_NETLIFY_HOST_UNKNOWN,
                    ERROR_NETLIFY_HOST_CLI_SUPPORT>>]
  ELSE IF Falsy(cloudName)
    THEN [exit |-> "Failed",
          fails |-> <<FailCall("onBuild", "failBuild", ERROR_CLOUD_NAME_REQUIRED)>>,
          log |-> <<ERROR_CLOUD_NAME_REQUIRED>>]
  ELSE IF deliveryType = "upload" /\ (Falsy(apiKey) \/ Falsy(apiSecret))
    THEN [exit |-> "Failed",
          fails |-> <<FailCall("onBuild", "failBuild", ERROR_API_CREDENTIALS_REQUIRED)>>,
          log |-> <<ERROR_API_CREDENTIALS_REQUIRED>>]
  ELSE [exit |-> "Passed", fails |-> <<>>, log |-> <<>>]

\* configureCloudinary({ cloudName, apiKey, apiSecret, ... })
ConfigureCloudinary ==
  /\ cloudinaryConfig' = [cloudName |-> CloudName, apiKey |-> ApiKey,
                          apiSecret |-> ApiSecret]
  /\ configureCalls' = configureCalls + 1

\* the getCloudinaryUrl options of the resolution of one discovered file
ResolveOptions(image) ==
  UrlOptions("onBuild", DeliveryType, Folder,
             Location(Undef, PublishPath(image), FALSE), Host)

\* a task of a Promise.all: pending, fulfilled with a value, or rejected
NoAsset == [publishPath |-> <<>>, cloudinaryUrl |-> LocalSplat(<<>>)]

Pending == [status |-> "pending", value |-> NoAsset]

Fulfilled(v) == [status |-> "fulfilled", value |-> v]

Rejected == [status |-> "rejected", value |-> NoAsset]

\* the bag of the calls opts[1], ..., opts[n]
RECURSIVE CallsOf(_)
CallsOf(opts) ==
  IF opts = <<>> THEN EmptyBag
  ELSE SetToBag({Head(opts)}) (+) CallsOf(Tail(opts))

\* lines 64-163, up to the first await: the checks, configureCloudinary,
\* discovery, and the start of one resolution task per discovered file
OnBuildStart ==
  /\ buildPc = "Idle"
  /\ LET c == OnBuildChecks(Folder, Host, DeliveryType, CloudName, ApiKey,
                            ApiSecret)
     IN IF c.exit # "Passed"
          THEN /\ buildPc' = c.exit
               /\ failCalls' = failCalls \o c.fails
               /\ buildLog' = buildLog \o LogLines("onBuild", c.log)
               /\ UNCHANGED <<cloudinaryConfig, configureCalls, urlCalls,
                              imagesFiles, resolution>>
          ELSE /\ ConfigureCloudinary
               /\ \E files \in FindAssetsByPath(PUBLISH_DIR, ImagesPath) :
                    /\ imagesFiles' = files
                    /\ resolution' = [i \in 1..Len(files) |-> Pending]
                    /\ urlCalls' = urlCalls (+)
                         CallsOf([i \in 1..Len(files) |->
                                    ResolveOptions(files[i])])
                    /\ buildLog' = buildLog \o
                         (IF Len(files) = 0
                            THEN <<LogLine("onBuild", "No image files found")>>
                            ELSE <<>>)
               /\ buildPc' = "Resolving"
               /\ UNCHANGED failCalls
  /\ UNCHANGED <<locals, redirects, cloudinaryAssets,
                 assetWrites, rejected, mediaPaths, emitted>>
  /\ UNCHANGED postVars

\* lines 147-161: the getCloudinaryUrl call of file i returns; the callback
\* resumes and returns { publishPath, ...cloudinary }
ResolveFulfil(i) ==
  /\ buildPc = "Resolving"
  /\ i \in 1..Len(resolution)
  /\ resolution[i].status = "pending"
  /\ resolution' =
       [resolution EXCEPT ![i] =
          Fulfilled([publishPath |-> PublishPath(imagesFiles[i]),
                     cloudinaryUrl |->
                       GetCloudinaryUrl(ResolveOptions(imagesFiles[i]))
                         .cloudinaryUrl])]
  /\ UNCHANGED <<locals, redirects, cloudinaryAssets,
                 assetWrites, cloudinaryConfig, configureCalls, failCalls,
                 buildLog, urlCalls, buildPc, imagesFiles, rejected,
                 mediaPaths, emitted>>
  /\ UNCHANGED postVars

\* lines 149-156: the getCloudinaryUrl call of file i throws; Promise.all
\* rejects with the first error
ResolveReject(i) ==
  /\ buildPc = "Resolving"
  /\ i \in 1..Len(resolution)
  /\ resolution[i].status = "pending"
  /\ MayReject(DeliveryType)
  /\ resolution' = [resolution EXCEPT ![i] = Rejected]
  /\ rejected' = IF rejected = 0 THEN i ELSE rejected
  /\ UNCHANGED <<locals, redirects, cloudinaryAssets,
                 assetWrites, cloudinaryConfig, configureCalls, failCalls,
                 buildLog, urlCalls, buildPc, imagesFiles, mediaPaths,
                 emitted>>
  /\ UNCHANGED postVars

\* OnBuildCatch keeping the records of the tasks that were fulfilled
OnBuildCatch_KeepsPartial ==
  /\ buildPc = "Resolving"
  /\ rejected # 0
  /\ buildLog' = buildLog \o <<LogLine("onBuild", "Error")>>
  /\ failCalls' = failCalls \o
       <<FailCall("onBuild", "failBuild",
                  ErrorMessage(PublishPath(imagesFiles[rejected])))>>
  /\ cloudinaryAssets' =
       [cloudinaryAssets EXCEPT !.images =
          SelectSeq([i \in 1..Len(resolution) |-> resolution[i].value],
                    LAMBDA v : v.publishPath # <<>>)]
  /\ assetWrites' = assetWrites + 1
  /\ buildPc' = "Failed"
  /\ UNCHANGED <<locals, redirects, cloudinaryConfig, configureCalls,
                 urlCalls, imagesFiles, resolution, rejected, mediaPaths,
                 emitted>>
  /\ UNCHANGED postVars

\* lines 164-172: the catch block
OnBuildCatch ==
  /\ buildPc = "Resolving"
  /\ rejected # 0
  /\ buildLog' = buildLog \o <<LogLine("onBuild", "Error")>>
  /\ failCalls' = failCalls \o
       <<FailCall("onBuild", "failBuild",
                  ErrorMessage(PublishPath(imagesFiles[rejected])))>>
  /\ buildPc' = "Failed"
  /\ UNCHANGED <<locals, redirects, cloudinaryAssets,
                 assetWrites, cloudinaryConfig, configureCalls, urlCalls,
                 imagesFiles, resolution, rejected, mediaPaths, emitted>>
  /\ UNCHANGED postVars

\* Promise.all: fulfilled once every task is, with the values in task order
AllFulfilled(tasks) == \A i \in 1..Len(tasks) : tasks[i].status = "fulfilled"

\* PromiseAllValues where each task overwrites the result of the others
PromiseAllValues_LastOnly(tasks) ==
  IF tasks = <<>> THEN <<>> ELSE <<tasks[Len(tasks)].value>>

\* PromiseAllValues where no task at all still yields one (empty) record
PromiseAllValues_NeverEmpty(tasks) ==
  IF tasks = <<>> THEN <<NoAsset>> ELSE [i \in 1..Len(tasks) |-> tasks[i].value]

PromiseAllValues(tasks) == [i \in 1..Len(tasks) |-> tasks[i].value]

\* AssignImages where the resolved records are not kept in the cache
AssignImages_Dropped ==
  /\ cloudinaryAssets' = [cloudinaryAssets EXCEPT !.images = <<>>]
  /\ assetWrites' = assetWrites + 1

\* line 145: _cloudinaryAssets.images = await Promise.all(...)
AssignImages ==
  /\ cloudinaryAssets' =
       [cloudinaryAssets EXCEPT !.images = PromiseAllValues(resolution)]
  /\ assetWrites' = assetWrites + 1

\* Object.keys(_cloudinaryAssets).flatMap(mediaType => _cloudinaryAssets[mediaType])
AllAssets(assets) == assets.images

\* lines 179-192: one unshift per cached asset, in cache order
RECURSIVE UnshiftEach(_, _)
UnshiftEach(list, rules) ==
  IF rules = <<>> THEN list
  ELSE UnshiftEach(Unshift(list, Head(rules)), Tail(rules))

\* UploadRedirects with one unshift of all the rules, which keeps their order
UploadRedirects_OneUnshift(list, assets) ==
  [i \in 1..Len(AllAssets(assets)) |-> UploadRule(AllAssets(assets)[i])]
  \o list

UploadRedirects(list, assets) ==
  UnshiftEach(list, [i \in 1..Len(AllAssets(assets)) |->
                       UploadRule(AllAssets(assets)[i])])

\* MediaPathsOf without the default path
MediaPathsOf_NoDefault(imagesPath, defaultPath) ==
  IF imagesPath.kind = "undefined" THEN <<>>
  ELSE IF imagesPath.kind = "string" THEN <<imagesPath.str>>
  ELSE imagesPath.arr

\* lines 203-213: buildConfig[inputKey] || defaultPath, a string wrapped
MediaPathsOf(imagesPath, defaultPath) ==
  IF imagesPath.kind = "undefined" THEN <<defaultPath>>
  ELSE IF imagesPath.kind = "string" THEN <<imagesPath.str>>
  ELSE imagesPath.arr

\* EmitRules with the two unshifts in the other order
EmitRules_RedirectFirst(list, mediaPath, assetRedirectUrl) ==
  Unshift(Unshift(list, FetchRedirectRule(mediaPath, assetRedirectUrl)),
          PassThroughRule(mediaPath))

\* EmitRules as if the callback were suspended between its two unshifts:
\* the pass-through rule lies below the rules the other callbacks inserted
EmitRules_AwaitBetween(list, mediaPath, assetRedirectUrl) ==
  LET n == Len(list) - Len(PreexistingRedirects)
  IN <<FetchRedirectRule(mediaPath, assetRedirectUrl)>>
     \o SubSeq(list, 1, n)
     \o <<PassThroughRule(mediaPath)>>
     \o SubSeq(list, n + 1, Len(list))

\* EmitRules where the callback inserts one pair of rules per cached asset
EmitRules_PairPerAsset(list, mediaPath, assetRedirectUrl) ==
  LET pair == <<FetchRedirectRule(mediaPath, assetRedirectUrl),
                PassThroughRule(mediaPath)>>
      n == Len(cloudinaryAssets.images)
  IN [k \in 1..(2 * n) |-> pair[2 - (k % 2)]] \o list

\* lines 230-242: the two unshifts of one emission callback
EmitRules(list, mediaPath, assetRedirectUrl) ==
  Unshift(Unshift(list, PassThroughRule(mediaPath)),
          FetchRedirectRule(mediaPath, assetRedirectUrl))

\* lines 145-192, deliveryType upload: the images are assigned, every asset's
\* callback runs to its end (it has no await), and the handler awaits them
OnBuildResolvedUpload ==
  /\ buildPc = "Resolving"
  /\ rejected = 0
  /\ AllFulfilled(resolution)
  /\ DeliveryType = "upload"
  /\ AssignImages
  /\ redirects' = UploadRedirects(redirects, cloudinaryAssets')
  /\ buildPc' = "Emitting"
  /\ UNCHANGED <<locals, cloudinaryConfig, configureCalls,
                 failCalls, buildLog, urlCalls, imagesFiles, resolution,
                 rejected, mediaPaths, emitted>>
  /\ UNCHANGED postVars

\* lines 145-246, deliveryType fetch: the images are assigned, and every media
\* path's callback runs up to its await of getCloudinaryUrl; forEach drops
\* the callbacks' promises, so the handler awaits none of them
OnBuildResolvedFetch ==
  /\ buildPc = "Resolving"
  /\ rejected = 0
  /\ AllFulfilled(resolution)
  /\ DeliveryType = "fetch"
  /\ AssignImages
  /\ mediaPaths' = MediaPathsOf(locals.imagesPath,
                                CLOUDINARY_ASSET_DIRECTORIES[1].path)
  /\ emitted' = [j \in 1..Len(mediaPaths') |-> FALSE]
  /\ urlCalls' = urlCalls (+)
       CallsOf([j \in 1..Len(mediaPaths') |-> EmitOptions(mediaPaths'[j])])
  /\ buildPc' = "Emitting"
  /\ UNCHANGED <<locals, redirects, cloudinaryConfig,
                 configureCalls, failCalls, buildLog, imagesFiles, resolution,
                 rejected>>
  /\ UNCHANGED postVars

\* lines 145-249, any other deliveryType: neither branch is taken
OnBuildResolvedOther ==
  /\ buildPc = "Resolving"
  /\ rejected = 0
  /\ AllFulfilled(resolution)
  /\ DeliveryType \notin {"upload", "fetch"}
  /\ AssignImages
  /\ buildLog' = buildLog \o <<LogLine("onBuild", "Done.")>>
  /\ buildPc' = "Done"
  /\ UNCHANGED <<locals, redirects, cloudinaryConfig,
                 configureCalls, failCalls, urlCalls, imagesFiles, resolution,
                 rejected, mediaPaths, emitted>>
  /\ UNCHANGED postVars

\* lines 222-242: the getCloudinaryUrl call of media path j returns and its
\* callback resumes: both unshifts run without an await between them
EmitResume(j) ==
  /\ j \in 1..Len(emitted)
  /\ ~emitted[j]
  /\ redirects' =
       EmitRules(redirects, mediaPaths[j],
                 GetCloudinaryUrl(EmitOptions(mediaPaths[j])).cloudinaryUrl)
  /\ emitted' = [emitted EXCEPT ![j] = TRUE]
  /\ UNCHANGED <<locals, cloudinaryAssets, assetWrites,
                 cloudinaryConfig, configureCalls, failCalls, buildLog,
                 urlCalls, buildPc, imagesFiles, resolution, rejected,
                 mediaPaths>>
  /\ UNCHANGED postVars

\* line 249: the handler resumes from its await of Promise.all and logs Done
OnBuildDone ==
  /\ buildPc = "Emitting"
  /\ buildLog' = buildLog \o <<LogLine("onBuild", "Done.")>>
  /\ buildPc' = "Done"
  /\ UNCHANGED <<locals, redirects, cloudinaryAssets,
                 assetWrites, cloudinaryConfig, configureCalls, failCalls,
                 urlCalls, imagesFiles, resolution, rejected, mediaPaths,
                 emitted>>
  /\ UNCHANGED postVars

\* ------------------------------------------------------------ onPostBuild
\* the precondition checks of onPostBuild, in the order of the code
OnPostBuildChecks(folder, deliveryType, cloudName, apiKey, apiSecret) ==
  IF Falsy(folder)
    THEN [exit |-> "Failed",
          fails |-> <<FailCall("onPostBuild", "failPlugin", ERROR_SITE_NAME_REQUIRED)>>,
          log |-> <<>>]
  ELSE IF Falsy(cloudName)
    THEN [exit |-> "Failed",
          fails |-> <<FailCall("onPostBuild", "failBuild", ERROR_CLOUD_NAME_REQUIRED)>>,
          log |-> <<ERROR_CLOUD_NAME_REQUIRED>>]
  ELSE IF deliveryType = "upload" /\ (Falsy(apiKey) \/ Falsy(apiSecret))
    THEN [exit |-> "Failed",
          fails |-> <<FailCall("onPostBuild", "failBuild", ERROR_API_CREDENTIALS_REQUIRED)>>,
          log |-> <<ERROR_API_CREDENTIALS_REQUIRED>>]
  ELSE [exit |-> "Passed", fails |-> <<>>, log |-> <<>>]

\* glob.sync(`${PUBLISH_DIR}/**/*.html`): the documents on disk, each once,
\* in the order of their names
GlobHtml ==
  {[i \in 1..Len(l) |-> HtmlFile(l[i])] : l \in Listings(PageNames, MaxPages)}

\* the context object one updateHtmlImagesToCloudinary call receives
RewriterCall(page) ==
  [page |-> page, deliveryType |-> DeliveryType, folder |-> Folder,
   remoteHost |-> Host]

\* the image references of the documents on disk: the k-th document shows
\* the k-th image file
ImageRefs(page) ==
  {PublishPath(ImageFile(FileNames[k])) :
     k \in {n \in 1..MaxPages : PageNames[n] = page[Len(page)]}}

\* the publish paths the cache passed as options.assets has a record of
CachedPaths(assets) ==
  {assets.images[i].publishPath : i \in 1..Len(assets.images)}

\* the rewriter's lookup: the delivery URL of the cached record of a path
CachedUrl(assets, ref) ==
  LET k == CHOOSE i \in 1..Len(assets.images) :
             assets.images[i].publishPath = ref
  IN assets.images[k].cloudinaryUrl

\* the getCloudinaryUrl options of the rewriter's fallback for a reference
\* the cache has no record of
FallbackOptions(ref) ==
  UrlOptions("onPostBuild", DeliveryType, Folder, Location(Undef, ref, FALSE),
             Host)

\* the rewritten document, as the delivery URL each resolved reference was
\* replaced with: the cached one where there is a record, else the fallback's
RewrittenHtml(assets, refs, failing) ==
  {[ref |-> r,
    url |-> IF r \in CachedPaths(assets)
              THEN CachedUrl(assets, r)
              ELSE GetCloudinaryUrl(FallbackOptions(r)).cloudinaryUrl] :
     r \in refs \ failing}

\* lines 256-335, up to the first await: the checks, configureCloudinary, the
\* glob, and per page the read and the call of the rewriter
OnPostBuildStart ==
  /\ postPc = "Idle"
  /\ buildPc \in {"Failed", "Skipped", "Done"}
  /\ LET c == OnPostBuildChecks(Folder, DeliveryType, CloudName, ApiKey,
                                ApiSecret)
     IN IF c.exit # "Passed"
          THEN /\ postPc' = c.exit
               /\ failCalls' = failCalls \o c.fails
               /\ buildLog' = buildLog \o LogLines("onPostBuild", c.log)
               /\ UNCHANGED <<cloudinaryConfig, configureCalls, pages,
                              rewrite, rewriterCalls>>
          ELSE /\ ConfigureCloudinary
               /\ \E found \in GlobHtml :
                    /\ pages' = found
                    /\ rewrite' = [i \in 1..Len(found) |->
                                     [status |-> "pending", errors |-> {}, html |-> {}]]
                    /\ rewriterCalls' = rewriterCalls \cup
                         {RewriterCall(found[i]) : i \in 1..Len(found)}
               /\ postPc' = "Rewriting"
               /\ UNCHANGED <<failCalls, buildLog>>
  /\ UNCHANGED <<locals, redirects, cloudinaryAssets,
                 assetWrites, urlCalls, pageWrites>>
  /\ UNCHANGED buildVars

\* PageRewritten where a document with errors fails the build unwritten
PageRewritten_AbortsOnError(i, errors, html) ==
  IF errors = {}
    THEN /\ pageWrites' = [pageWrites EXCEPT ![pages[i]] = @ + 1]
         /\ rewrite' = [rewrite EXCEPT ![i] =
                          [status |-> "fulfilled", errors |-> errors,
                           html |-> html]]
         /\ UNCHANGED <<failCalls, postPc>>
    ELSE /\ failCalls' = failCalls \o
              <<FailCall("onPostBuild", "failBuild", "RewriteError")>>
         /\ postPc' = "Failed"
         /\ UNCHANGED <<pageWrites, rewrite>>

\* what one page's callback does once the rewriter has returned
\* { html, errors }: fs.writeFileSync(page, html); return { page, errors }
PageRewritten(i, errors, html) ==
  /\ pageWrites' = [pageWrites EXCEPT ![pages[i]] = @ + 1]
  /\ rewrite' = [rewrite EXCEPT ![i] =
                   [status |-> "fulfilled", errors |-> errors,
                           html |-> html]]
  /\ UNCHANGED <<failCalls, postPc>>

\* lines 317-334: the rewriter returns for page i. A reference found in the cache takes the cached URL, any
\* other falls back to getCloudinaryUrl, and those in failing could not be
\* resolved: they stay as they are and are reported in errors
RewritePage(i) ==
  /\ postPc = "Rewriting"
  /\ i \in 1..Len(rewrite)
  /\ rewrite[i].status = "pending"
  /\ LET uncached == ImageRefs(pages[i]) \ CachedPaths(cloudinaryAssets)
     IN \E failing \in SUBSET uncached :
            /\ MayReject(DeliveryType) \/ failing = {}
            /\ urlCalls' = urlCalls (+)
                 SetToBag({FallbackOptions(r) : r \in uncached})
            /\ PageRewritten(i, failing,
                             RewrittenHtml(cloudinaryAssets,
                                           ImageRefs(pages[i]), failing))
  /\ UNCHANGED <<locals, redirects, cloudinaryAssets,
                 assetWrites, cloudinaryConfig, configureCalls, buildLog,
                 pages, rewriterCalls>>
  /\ UNCHANGED buildVars

\* results.filter(({ errors }) => errors.length > 0), as the pages' names
RECURSIVE ErrorPages(_, _)
ErrorPages(found, results) ==
  IF results = <<>> THEN <<>>
  ELSE (IF Head(results).errors # {}
          THEN <<Head(found)[Len(Head(found))]>> ELSE <<>>)
       \o ErrorPages(Tail(found), Tail(results))

\* lines 338-345: the summary logged at the end of the pass
Summary(errorPages) ==
  IF Len(errorPages) > 0
    THEN <<"Done with errors">> \o errorPages
    ELSE <<"Done.">>

\* lines 336-345: every page's callback has returned; the summary is logged
OnPostBuildDone ==
  /\ postPc = "Rewriting"
  /\ \A i \in 1..Len(rewrite) : rewrite[i].status = "fulfilled"
  /\ buildLog' = buildLog \o
       LogLines("onPostBuild", Summary(ErrorPages(pages, rewrite)))
  /\ postPc' = "Done"
  /\ UNCHANGED <<locals, redirects, cloudinaryAssets,
                 assetWrites, cloudinaryConfig, configureCalls, failCalls,
                 urlCalls, pages, rewrite, pageWrites, rewriterCalls>>
  /\ UNCHANGED buildVars

\* ---------------------------------------------------------- specification
Init ==
  /\ \E config \in BuildConfigs, env \in ProcessEnvs :
       locals = Locals(config, env)
  /\ redirects = PreexistingRedirects
  /\ cloudinaryAssets = [images |-> <<>>]
  /\ assetWrites = 0
  /\ cloudinaryConfig = [cloudName |-> Undef, apiKey |-> Undef,
                         apiSecret |-> Undef]
  /\ configureCalls = 0
  /\ failCalls = <<>>
  /\ buildLog = <<>>
  /\ urlCalls = EmptyBag
  /\ buildPc = "Idle"
  /\ imagesFiles = <<>>
  /\ resolution = <<>>
  /\ rejected = 0
  /\ mediaPaths = <<>>
  /\ emitted = <<>>
  /\ postPc = "Idle"
  /\ pages = <<>>
  /\ rewrite = <<>>
  /\ pageWrites = [p \in HtmlFiles |-> 0]
  /\ rewriterCalls = {}

Next ==
  \/ OnBuildStart
  \/ \E i \in 1..MaxFiles : ResolveFulfil(i)
  \/ \E i \in 1..MaxFiles : ResolveReject(i)
  \/ OnBuildCatch
  \/ OnBuildResolvedUpload
  \/ OnBuildResolvedFetch
  \/ OnBuildResolvedOther
  \/ \E j \in 1..MaxPaths : EmitResume(j)
  \/ OnBuildDone
  \/ OnPostBuildStart
  \/ \E i \in 1..MaxPages : RewritePage(i)
  \/ OnPostBuildDone

Spec == Init /\ [][Next]_vars

\* ================================================================== claims
\* what each handler signalled and logged
FailsOf(handler) == SelectSeq(failCalls, LAMBDA c : c.handler = handler)

MessagesOf(handler) ==
  [i \in 1..Len(FailsOf(handler)) |-> FailsOf(handler)[i].message]

LogOf(handler) == SelectSeq(buildLog, LAMBDA l : l.handler = handler)

UrlCallsOf(handler) == {o \in BagToSet(urlCalls) : o.handler = handler}

\* the asset cache as the module creates it
InitialAssets == [images |-> <<>>]

\* onBuild ended at a precondition check: it is over and never discovered
BuildEndedAtCheck ==
  /\ buildPc \in {"Failed", "Skipped"}
  /\ rejected = 0

\* onBuild did nothing beyond its checks
NothingDoneByBuild ==
  /\ redirects = PreexistingRedirects
  /\ cloudinaryAssets = InitialAssets
  /\ assetWrites = 0
  /\ imagesFiles = <<>>
  /\ resolution = <<>>
  /\ UrlCallsOf("onBuild") = {}
  /\ postPc = "Idle" => configureCalls = 0

\* the states of a fetch-mode run in which every emission callback has resumed
FetchEmissionFinished ==
  /\ DeliveryType = "fetch"
  /\ buildPc \in {"Emitting", "Done"}
  /\ \A j \in 1..Len(emitted) : emitted[j]

\* the indices of a redirect list that hold the rule given
IndicesOf(list, rule) == {k \in 1..Len(list) : list[k] = rule}

\* the two rules of a media path as the specification writes them
SpecPassThrough(mediaPath) ==
  [from |-> [path |-> <<PUBLIC_ASSET_PATH>> \o mediaPath, glob |-> "/*"],
   to |-> [kind |-> "local", cloudName |-> Undef, deliveryType |-> Undef,
           folder |-> Undef, host |-> Undef, path |-> mediaPath,
           splat |-> TRUE],
   status |-> 200,
   force |-> TRUE]

SpecFetchRedirect(mediaPath) ==
  [from |-> [path |-> mediaPath, glob |-> "/*"],
   to |-> [kind |-> "cdn", cloudName |-> CloudName, deliveryType |-> "fetch",
           folder |-> Folder, host |-> Host,
           path |-> <<PUBLIC_ASSET_PATH>> \o mediaPath, splat |-> TRUE],
   status |-> 302,
   force |-> TRUE]

\* the media paths a configuration names: the pattern, each element of the
\* pattern list, or '/images' when none is configured
ConfiguredMediaPaths ==
  IF locals.imagesPath.kind = "undefined" THEN {<<"images">>}
  ELSE IF locals.imagesPath.kind = "string" THEN {locals.imagesPath.str}
  ELSE Range(locals.imagesPath.arr)

\* C1: once onBuild has run its checks, its exit is that of the first check
\* that fails, in the order folder, host (fetch only), account name,
\* credentials (upload only): a missing folder gives Failed with the
\* site-name message whatever else is missing, a missing host under fetch gives
\* Skipped with no failure call even when the account name is missing too,
\* and after a failing check nothing is configured, discovered, resolved,
\* cached or inserted.
C1_ChecksInOrder ==
  buildPc # "Idle" =>
    /\ Falsy(Folder) =>
         /\ BuildEndedAtCheck /\ buildPc = "Failed"
         /\ MessagesOf("onBuild") = <<ERROR_SITE_NAME_REQUIRED>>
         /\ NothingDoneByBuild
    /\ (~Falsy(Folder) /\ DeliveryType = "fetch" /\ Falsy(Host)) =>
         /\ BuildEndedAtCheck /\ buildPc = "Skipped"
         /\ FailsOf("onBuild") = <<>>
         /\ NothingDoneByBuild
    /\ (~Falsy(Folder) /\ ~(DeliveryType = "fetch" /\ Falsy(Host))
        /\ Falsy(CloudName)) =>
         /\ BuildEndedAtCheck /\ buildPc = "Failed"
         /\ MessagesOf("onBuild") = <<ERROR_CLOUD_NAME_REQUIRED>>
         /\ NothingDoneByBuild
    /\ (~Falsy(Folder) /\ ~Falsy(CloudName) /\ DeliveryType = "upload"
        /\ (Falsy(ApiKey) \/ Falsy(ApiSecret))) =>
         /\ BuildEndedAtCheck /\ buildPc = "Failed"
         /\ MessagesOf("onBuild") = <<ERROR_API_CREDENTIALS_REQUIRED>>
         /\ NothingDoneByBuild
    /\ (~Falsy(Folder) /\ ~(DeliveryType = "fetch" /\ Falsy(Host))
        /\ ~Falsy(CloudName)
        /\ ~(DeliveryType = "upload" /\ (Falsy(ApiKey) \/ Falsy(ApiSecret)))) =>
         /\ ~BuildEndedAtCheck
         /\ configureCalls >= 1

\* C1 witness: fetch with neither host nor account name was skipped
C1_Witness ==
  /\ buildPc = "Skipped"
  /\ DeliveryType = "fetch"
  /\ ~Falsy(Folder) /\ Falsy(Host) /\ Falsy(CloudName)
  /\ FailsOf("onBuild") = <<>>

\* C2, as stated: in the final fetch-mode list every media path's
\* pass-through rule has a lower index than its general redirect rule.
C2_PassThroughFirst ==
  FetchEmissionFinished =>
    \A p \in Range(mediaPaths) :
      \A a \in IndicesOf(redirects, SpecPassThrough(p)) :
        \A b \in IndicesOf(redirects, SpecFetchRedirect(p)) : a < b

\* C2, amended: in the final fetch-mode list every media path has both of its
\* rules, and its general redirect rule (302) is the one with the lower
\* index: the pass-through rule (200) is the entry right after it.
C2_RedirectThenPassThrough ==
  FetchEmissionFinished =>
    \A p \in Range(mediaPaths) :
      /\ IndicesOf(redirects, SpecPassThrough(p)) # {}
      /\ IndicesOf(redirects, SpecFetchRedirect(p)) # {}
      /\ \A a \in IndicesOf(redirects, SpecPassThrough(p)) :
           \A b \in IndicesOf(redirects, SpecFetchRedirect(p)) : a = b + 1

\* C2 witness: a finished fetch emission over two media paths
C2_Witness ==
  /\ FetchEmissionFinished
  /\ Len(mediaPaths) >= 2
  /\ Len(redirects) = Len(PreexistingRedirects) + 2 * Len(mediaPaths)

\* C3: when onBuild has logged Done in fetch mode, both rules of every
\* configured media path are in the redirect list.
C3_DoneAfterEmission ==
  (buildPc = "Done" /\ DeliveryType = "fetch") =>
    \A p \in ConfiguredMediaPaths :
      /\ IndicesOf(redirects, SpecPassThrough(p)) # {}
      /\ IndicesOf(redirects, SpecFetchRedirect(p)) # {}

\* C4: with no folder name each handler that has run ended in a hard build
\* failure: it signalled the build-failure channel (failBuild, the channel
\* of a missing account name) exactly once with the site-name message, and
\* did nothing else.
C4_FolderAbsentFailsBuild ==
  Falsy(Folder) =>
    /\ buildPc # "Idle" =>
         /\ buildPc = "Failed"
         /\ FailsOf("onBuild") =
              <<[handler |-> "onBuild", fn |-> "failBuild",
                 message |-> ERROR_SITE_NAME_REQUIRED]>>
    /\ postPc # "Idle" =>
         /\ postPc = "Failed"
         /\ FailsOf("onPostBuild") =
              <<[handler |-> "onPostBuild", fn |-> "failBuild",
                 message |-> ERROR_SITE_NAME_REQUIRED]>>

\* C5: once a resolution has rejected, onBuild does not store, emit or
\* finish: when it has left the resolution step it is Failed, failBuild was
\* called exactly once with the message of the error that rejected it, the
\* asset cache is as it was before the step and the redirect list is
\* untouched.
C5_RejectionFailsBuild ==
  rejected # 0 =>
    /\ buildPc \in {"Resolving", "Failed"}
    /\ cloudinaryAssets = InitialAssets
    /\ assetWrites = 0
    /\ redirects = PreexistingRedirects
    /\ buildPc = "Resolving" => FailsOf("onBuild") = <<>>
    /\ buildPc = "Failed" =>
         FailsOf("onBuild") =
           <<[handler |-> "onBuild", fn |-> "failBuild",
              message |-> "UploadError " \o
                imagesFiles[rejected][Len(imagesFiles[rejected])]]>>

\* C5 witness: one of two resolutions was fulfilled, the other rejected, and
\* the handler has caught the error
C5_Witness ==
  /\ buildPc = "Failed"
  /\ rejected # 0
  /\ \E i \in 1..Len(resolution) : resolution[i].status = "fulfilled"
  /\ Len(FailsOf("onBuild")) = 1

\* C6: when onBuild is Done in upload mode with N cached records, the first N
\* entries of the redirect list are the rules of the cached records in
\* reverse cache order (the last record's rule at the head), each
\* {from: publishPath*, to: the record's own CDN URL, status 302, force}.
C6_UploadRulesMostRecentFirst ==
  (DeliveryType = "upload" /\ buildPc = "Done") =>
    LET images == cloudinaryAssets.images
        N == Len(images)
    IN /\ N = Len(imagesFiles)
       /\ Len(redirects) = N + Len(PreexistingRedirects)
       /\ \A k \in 1..N :
            /\ redirects[k] =
                 [from |-> [path |-> images[N + 1 - k].publishPath,
                            glob |-> "*"],
                  to |-> images[N + 1 - k].cloudinaryUrl,
                  status |-> 302,
                  force |-> TRUE]
            /\ redirects[k].to.kind = "cdn"
            /\ redirects[k].to.deliveryType = "upload"
            /\ redirects[k].to.path = images[N + 1 - k].publishPath
            /\ images[N + 1 - k].publishPath =
                 SubSeq(imagesFiles[N + 1 - k], 2, Len(imagesFiles[N + 1 - k]))

\* C6 witness: two records, the rule of the second at the head of the list
C6_Witness ==
  /\ DeliveryType = "upload"
  /\ buildPc = "Done"
  /\ Len(cloudinaryAssets.images) = 2
  /\ redirects[1].from.path = cloudinaryAssets.images[2].publishPath
  /\ redirects[2].from.path = cloudinaryAssets.images[1].publishPath
  /\ redirects[1] # redirects[2]

\* C7: once every emission callback has resumed, the redirect list holds,
\* ahead of the rules it had, exactly two rules per configured media path:
\* its pass-through rule and its general redirect rule, each once, however
\* many files were discovered.
C7_TwoRulesPerMediaPath ==
  FetchEmissionFinished =>
    LET n == Cardinality(ConfiguredMediaPaths)
    IN /\ Len(redirects) = 2 * n + Len(PreexistingRedirects)
       /\ SubSeq(redirects, 2 * n + 1, Len(redirects)) = PreexistingRedirects
       /\ \A p \in ConfiguredMediaPaths :
            /\ Cardinality(IndicesOf(redirects, SpecPassThrough(p))) = 1
            /\ Cardinality(IndicesOf(redirects, SpecFetchRedirect(p))) = 1

\* C7 witness: the default media path with two discovered files gave two rules
C7_Witness ==
  /\ FetchEmissionFinished
  /\ locals.imagesPath.kind = "undefined"
  /\ Len(imagesFiles) = 2
  /\ Len(redirects) = 2 + Len(PreexistingRedirects)

\* C8: with a folder name, fetch delivery and no host, onBuild ends Skipped:
\* no failPlugin or failBuild call, the warning logged, no redirect rule
\* inserted, the asset cache unchanged, no getCloudinaryUrl call issued.
C8_UnknownHostSkips ==
  (buildPc # "Idle" /\ DeliveryType = "fetch" /\ Falsy(Host)
   /\ ~Falsy(Folder)) =>
    /\ buildPc = "Skipped"
    /\ FailsOf("onBuild") = <<>>
    /\ LogOf("onBuild") =
         <<[handler |-> "onBuild", text |-> ERROR_NETLIFY_HOST_UNKNOWN],
           [handler |-> "onBuild", text |-> ERROR_NETLIFY_HOST_CLI_SUPPORT]>>
    /\ redirects = PreexistingRedirects
    /\ cloudinaryAssets = InitialAssets
    /\ assetWrites = 0
    /\ UrlCallsOf("onBuild") = {}

\* C8 witness: onBuild was skipped and the build went on to onPostBuild
C8_Witness ==
  /\ buildPc = "Skipped"
  /\ ~Falsy(CloudName)
  /\ postPc # "Idle"
  /\ failCalls = <<>>

\* C9: once the rewriter has been called the Rewrite Pass never fails: it
\* signals no failure for a document's errors, writes no document twice, and when it is Done every discovered document was
\* written exactly once, those with errors included, and the last thing
\* logged is the summary: the names of the documents with errors, or Done.
C9_RewriteErrorsStayLocal ==
  /\ rewriterCalls # {} =>
       /\ postPc \in {"Rewriting", "Done"}
       /\ FailsOf("onPostBuild") = <<>>
  /\ postPc \in {"Rewriting", "Done"} =>
       /\ FailsOf("onPostBuild") = <<>>
       /\ \A page \in HtmlFiles : pageWrites[page] <= 1
       /\ \A i \in 1..Len(rewrite) :
            pageWrites[pages[i]] =
              (IF rewrite[i].status = "fulfilled" THEN 1 ELSE 0)
  /\ postPc = "Done" =>
       LET withErrors ==
             SelectSeq([i \in 1..Len(pages) |->
                          [name |-> pages[i][Len(pages[i])],
                           errors |-> rewrite[i].errors]],
                       LAMBDA r : r.errors # {})
           texts == [i \in 1..Len(LogOf("onPostBuild")) |->
                       LogOf("onPostBuild")[i].text]
       IN /\ \A page \in HtmlFiles :
               pageWrites[page] = (IF page \in Range(pages) THEN 1 ELSE 0)
          /\ texts = (IF withErrors = <<>>
                        THEN <<"Done.">>
                        ELSE <<"Done with errors">> \o
                             [i \in 1..Len(withErrors) |->
                                withErrors[i].name])

\* C9 witness: of two documents the first had errors, and both were written
C9_Witness ==
  /\ postPc = "Done"
  /\ Len(pages) = 2
  /\ rewrite[1].errors # {}
  /\ rewrite[2].errors = {}
  /\ pageWrites[pages[1]] = 1
  /\ pageWrites[pages[2]] = 1

\* C10: once the resolution step has succeeded the images cache was
\* assigned once and holds exactly one record per discovered file, in any
\* order of completion: no file without a record, no record without a file,
\* no publish path twice.
C10_OneRecordPerFile ==
  assetWrites > 0 =>
    LET images == cloudinaryAssets.images
    IN /\ assetWrites = 1
       /\ Len(images) = Len(imagesFiles)
       /\ \A i \in 1..Len(imagesFiles) :
            Cardinality({k \in 1..Len(images) :
                           <<"dist">> \o images[k].publishPath =
                             imagesFiles[i]}) = 1
       /\ \A k \in 1..Len(images) :
            \E i \in 1..Len(imagesFiles) :
              <<"dist">> \o images[k].publishPath = imagesFiles[i]
       /\ \A k, l \in 1..Len(images) :
            k # l => images[k].publishPath # images[l].publishPath

\* C10 witness: two files were resolved and cached
C10_Witness ==
  /\ assetWrites = 1
  /\ Len(imagesFiles) = 2
  /\ Len(cloudinaryAssets.images) = 2
  /\ buildPc \in {"Emitting", "Done"}

\* the number of getCloudinaryUrl calls of a delivery type made for a local
\* path, over both handlers
CallsFor(deliveryType, path) ==
  LET S == {o \in BagToSet(urlCalls) :
              /\ o.deliveryType = deliveryType
              /\ o.path.host = Undef
              /\ o.path.path = path}
  IN IF S = {} THEN 0 ELSE BagCardinality([o \in S |-> urlCalls[o]])

\* C11: in upload mode, once onBuild has resolved its files, each of their
\* paths has been uploaded exactly once over both handlers: the rewrite
\* issues no call for it, and every document that references it carries
\* the delivery URL of the cached record.
C11_CachedPathUploadedOnce ==
  (DeliveryType = "upload" /\ assetWrites > 0) =>
    \A f \in 1..Len(imagesFiles) :
      LET p == PublishPath(imagesFiles[f])
      IN /\ CallsFor("upload", p) = 1
         /\ \A o \in UrlCallsOf("onPostBuild") : o.path.path # p
         /\ p \in CachedPaths(cloudinaryAssets)
         /\ CachedUrl(cloudinaryAssets, p) = resolution[f].value.cloudinaryUrl
         /\ \A i \in 1..Len(rewrite) :
              \A sub \in rewrite[i].html :
                sub.ref = p => sub.url = CachedUrl(cloudinaryAssets, p)

\* C11 witness: an uploaded file is referenced by a rewritten document,
\* which took the cached URL, while another document's reference had no
\* record and went through the fallback
C11_Witness ==
  /\ DeliveryType = "upload"
  /\ postPc = "Done"
  /\ Len(imagesFiles) = 1
  /\ Len(cloudinaryAssets.images) = 1
  /\ Len(pages) = 2
  /\ \E sub \in rewrite[1].html :
       /\ sub.ref = PublishPath(imagesFiles[1])
       /\ sub.url = cloudinaryAssets.images[1].cloudinaryUrl
  /\ CallsFor("upload", PublishPath(imagesFiles[1])) = 1
  /\ \E o \in UrlCallsOf("onPostBuild") :
       o.path.path \in ImageRefs(pages[2])

\* the messages of the precondition checks
CheckMessages ==
  {ERROR_SITE_NAME_REQUIRED, ERROR_NETLIFY_HOST_UNKNOWN,
   ERROR_NETLIFY_HOST_CLI_SUPPORT, ERROR_CLOUD_NAME_REQUIRED,
   ERROR_API_CREDENTIALS_REQUIRED}

\* no check of either handler has failed, skipped or logged anything
NoCheckTripped ==
  /\ buildPc # "Skipped"
  /\ \A i \in 1..Len(failCalls) : failCalls[i].message \notin CheckMessages
  /\ \A i \in 1..Len(buildLog) : buildLog[i].text \notin CheckMessages

\* C12: a fetch build issues getCloudinaryUrl calls of delivery type fetch
\* only, in both handlers. An upload build with folder, account name and
\* credentials but no host trips no check: onBuild goes on to resolution
\* (and fails only if an upload is rejected), emits its rules with no host,
\* and onPostBuild goes on to the rewrite.
C12_ModeExclusivity ==
  /\ DeliveryType = "fetch" =>
       \A o \in BagToSet(urlCalls) : o.deliveryType = "fetch"
  /\ (DeliveryType = "upload" /\ Falsy(Host) /\ ~Falsy(Folder)
      /\ ~Falsy(CloudName) /\ ~Falsy(ApiKey) /\ ~Falsy(ApiSecret)) =>
       /\ NoCheckTripped
       /\ buildPc = "Failed" => rejected # 0
       /\ buildPc # "Idle" => configureCalls > 0
       /\ buildPc \in {"Emitting", "Done"} =>
            Len(redirects) = Len(imagesFiles) + Len(PreexistingRedirects)
       /\ postPc \in {"Idle", "Rewriting", "Done"}
       /\ postPc # "Idle" =>
            \A i \in 1..Len(pages) : RewriterCall(pages[i]) \in rewriterCalls

\* C12 witness: an upload build without a host resolved a file, inserted its
\* rule and rewrote a document; the call it issued was an upload
C12_Witness ==
  /\ DeliveryType = "upload"
  /\ Falsy(Host)
  /\ buildPc = "Done"
  /\ Len(imagesFiles) = 1
  /\ Len(redirects) = 1 + Len(PreexistingRedirects)
  /\ redirects[1].status = 302
  /\ postPc = "Done"
  /\ Len(pages) = 1
  /\ pageWrites[pages[1]] = 1
  /\ \A o \in BagToSet(urlCalls) : o.deliveryType = "upload"

\* C13: when discovery finds no file, onBuild signals no failure after its
\* checks and logs the warning; once the (empty) resolution step is over the
\* images cache is the empty sequence, assigned once; upload delivery
\* inserts no rule; fetch delivery still has one emission callback per
\* configured media path, each inserting its two rules when it resumes.
C13_ZeroFilesIsNoError ==
  /\ rejected # 0 => Len(imagesFiles) > 0
  /\ (buildPc \in {"Resolving", "Emitting", "Done"} /\ imagesFiles = <<>>) =>
       /\ FailsOf("onBuild") = <<>>
       /\ \E i \in 1..Len(buildLog) :
            buildLog[i] = LogLine("onBuild", "No image files found")
       /\ UrlCallsOf("onBuild") \subseteq
            {EmitOptions(p) : p \in ConfiguredMediaPaths}
       /\ buildPc = "Resolving" =>
            redirects = PreexistingRedirects /\ assetWrites = 0
       /\ buildPc \in {"Emitting", "Done"} =>
            /\ cloudinaryAssets.images = <<>>
            /\ assetWrites = 1
            /\ DeliveryType = "upload" => redirects = PreexistingRedirects
            /\ DeliveryType = "fetch" =>
                 LET done == {j \in 1..Len(mediaPaths) : emitted[j]}
                 IN /\ Range(mediaPaths) = ConfiguredMediaPaths
                    /\ Len(mediaPaths) = Cardinality(ConfiguredMediaPaths)
                    /\ Len(redirects) =
                         2 * Cardinality(done) + Len(PreexistingRedirects)
                    /\ \A j \in done :
                         /\ IndicesOf(redirects,
                                      SpecPassThrough(mediaPaths[j])) # {}
                         /\ IndicesOf(redirects,
                                      SpecFetchRedirect(mediaPaths[j])) # {}

\* C13 witness: a fetch build with two media paths found no file, reached
\* Done with an empty cache, and its four rules were inserted
C13_Witness ==
  /\ DeliveryType = "fetch"
  /\ buildPc = "Done"
  /\ imagesFiles = <<>>
  /\ cloudinaryAssets.images = <<>>
  /\ assetWrites = 1
  /\ failCalls = <<>>
  /\ Len(mediaPaths) = 2
  /\ emitted[1] /\ emitted[2]
  /\ Len(redirects) = 4 + Len(PreexistingRedirects)

\* the example scenario: fetch delivery, the host known, the one images
\* path '/images' configured, two files discovered and resolved
ExampleScenario ==
  /\ DeliveryType = "fetch"
  /\ ~Falsy(Host)
  /\ locals.imagesPath.kind = "string"
  /\ locals.imagesPath.str = <<"images">>
  /\ Len(imagesFiles) = 2
  /\ buildPc \in {"Emitting", "Done"}

\* C14 as stated: in the example scenario two records are cached and, once
\* emission is over, four rules were inserted, pass-through rules ahead of
\* the general rules. TLC finds a state that violates it.
C14_FourRulesTwoPairs ==
  (ExampleScenario /\ FetchEmissionFinished) =>
    /\ Len(cloudinaryAssets.images) = 2
    /\ Len(redirects) = 4 + Len(PreexistingRedirects)
    /\ redirects[1].status = 200

\* C14 amended: in the example scenario two records are cached and, once
\* emission is over, exactly two rules were inserted, one pair for the one
\* media path whatever the number of files: the general 302 rule first, the
\* pass-through rule right after it, then the rules the list had.
C14_OnePairForOnePath ==
  ExampleScenario =>
    /\ Len(cloudinaryAssets.images) = 2
    /\ assetWrites = 1
    /\ mediaPaths = << <<"images">> >>
    /\ ~emitted[1] => redirects = PreexistingRedirects
    /\ emitted[1] =>
         redirects = <<SpecFetchRedirect(<<"images">>),
                       SpecPassThrough(<<"images">>)>>
                     \o PreexistingRedirects

\* C14 witness: the example scenario reached Done with its one pair inserted
C14_Witness ==
  /\ ExampleScenario
  /\ buildPc = "Done"
  /\ emitted[1]
  /\ Len(redirects) = 2 + Len(PreexistingRedirects)
  /\ redirects[1].status = 302
  /\ redirects[2].status = 200
  /\ cloudinaryAssets.images[1].publishPath # cloudinaryAssets.images[2].publishPath

\* s is the end of t
IsSuffix(s, t) ==
  /\ Len(s) <= Len(t)
  /\ SubSeq(t, Len(t) - Len(s) + 1, Len(t)) = s

\* C15: the redirect list only ever grows at its head. In every state the
\* rules the list had before onBuild are its last entries, unmodified and in
\* their order, and every step leaves the list it found as the end of the
\* list it makes: no rule is removed, changed or moved, in either delivery
\* type and whatever the order in which the emission callbacks resume.
C15_HeadInsertionOnly ==
  /\ [](IsSuffix(PreexistingRedirects, redirects))
  /\ [][IsSuffix(redirects, redirects')]_vars

\* C15 witness: two emission callbacks resumed second path first, and the
\* rules the list had are still its last entries
C15_Witness ==
  /\ Len(PreexistingRedirects) >= 2
  /\ Len(mediaPaths) = 2
  /\ emitted[1] /\ emitted[2]
  /\ Len(redirects) = 4 + Len(PreexistingRedirects)
  /\ redirects[1] = SpecFetchRedirect(mediaPaths[1])
  /\ redirects[3] = SpecFetchRedirect(mediaPaths[2])
  /\ SubSeq(redirects, 5, Len(redirects)) = PreexistingRedirects

\* does a rule's from pattern match a request path: `${prefix}/*` matches
\* the paths below prefix, `${prefix}*` also prefix itself
Matches(rule, request) ==
  /\ IsPrefix(rule.from.path, request)
  /\ rule.from.glob = "/*" => Len(request) > Len(rule.from.path)

\* first-match-wins: the index of the rule that serves a request, 0 if none
FirstMatch(list, request) ==
  LET hits == {k \in 1..Len(list) : Matches(list[k], request)}
  IN IF hits = {} THEN 0
     ELSE CHOOSE k \in hits : \A l \in hits : k <= l

\* request paths under the CDN asset mount of a media path
RequestsUnder(mediaPath) ==
  {CldAssetPath(mediaPath) \o <<FileNames[i]>> : i \in 1..MaxFiles}

\* C16 as stated: once every emission callback has resumed, every request
\* under the CDN asset mount of a configured media path is served by that
\* path's status-200 pass-through rule, for every configured set of media
\* paths. TLC finds a state that violates it: a media path that is a prefix
\* of a mount path has its 302 rule ahead of the pass-through rule.
C16_MountServedByPassThrough ==
  FetchEmissionFinished =>
    \A m \in ConfiguredMediaPaths :
      \A request \in RequestsUnder(m) :
        LET k == FirstMatch(redirects, request)
        IN /\ k # 0
           /\ redirects[k] = SpecPassThrough(m)

\* C17 as stated: in a fetch build with no host, onPostBuild never calls the
\* rewriter with an undefined remoteHost, writes no document, and no
\* document carries a CDN URL built from an undefined host. TLC finds a
\* state that violates it: onPostBuild has no host check.
C17_NoRewriteWithoutHost ==
  (DeliveryType = "fetch" /\ Falsy(Host)) =>
    /\ \A c \in rewriterCalls : c.remoteHost # Undef
    /\ \A page \in HtmlFiles : pageWrites[page] = 0
    /\ \A i \in 1..Len(rewrite) :
         \A sub \in rewrite[i].html : sub.url.host # Undef
    /\ \A o \in BagToSet(urlCalls) :
         GetCloudinaryUrl(o).cloudinaryUrl.host # Undef

\* C18: in fetch delivery the two rules of a media path enter the list in
\* one step. In every state the rules ahead of those the list had come in
\* pairs, one pair per resumed callback: a 302 rule at an odd position, the
\* pass-through rule of the same media path right after it, and no rule of
\* another media path between the two, in whatever order the callbacks
\* resumed.
C18_PairsNeverInterleaved ==
  (DeliveryType = "fetch" /\ buildPc \in {"Emitting", "Done"}) =>
    LET done == {j \in 1..Len(mediaPaths) : emitted[j]}
        n == Len(redirects) - Len(PreexistingRedirects)
    IN /\ n = 2 * Cardinality(done)
       /\ \A k \in 1..n :
            IF k % 2 = 1
              THEN \E j \in done :
                     /\ redirects[k] = SpecFetchRedirect(mediaPaths[j])
                     /\ redirects[k + 1] = SpecPassThrough(mediaPaths[j])
              ELSE redirects[k].status = 200
       /\ \A j \in done :
            Cardinality(IndicesOf(redirects,
                                  SpecFetchRedirect(mediaPaths[j]))) = 1

\* C18 witness: of two media paths the first callback resumed first and the
\* second after it, and each pair is whole
C18_Witness ==
  /\ DeliveryType = "fetch"
  /\ Len(mediaPaths) = 2
  /\ emitted[1] /\ emitted[2]
  /\ Len(redirects) = 4 + Len(PreexistingRedirects)
  /\ redirects[1] = SpecFetchRedirect(mediaPaths[2])
  /\ redirects[2] = SpecPassThrough(mediaPaths[2])
  /\ redirects[3] = SpecFetchRedirect(mediaPaths[1])
  /\ redirects[4] = SpecPassThrough(mediaPaths[1])

\* C19 as stated: an onBuild run that passed its checks, resolved and cached
\* its assets and reached Done went through exactly one of the two branches:
\* its deliveryType is upload, with one rule per cached asset inserted, or
\* fetch, with one emission callback per configured media path started and
\* inserting its rules when it resumes. TLC finds a
\* state that violates it: any other deliveryType string is accepted, takes
\* neither branch, and the handler reaches Done with the list as it was.
C19_OneBranchTaken ==
  (buildPc = "Done" /\ assetWrites = 1) =>
    /\ DeliveryType \in {"upload", "fetch"}
    /\ DeliveryType = "upload" =>
         Len(redirects) =
           Len(cloudinaryAssets.images) + Len(PreexistingRedirects)
    /\ DeliveryType = "fetch" =>
         /\ Range(mediaPaths) = ConfiguredMediaPaths
         /\ Len(emitted) = Len(mediaPaths)

====
